---- MODULE Spec2Model ----
(***************************************************************************)
(* Model of the uncompressed PNG writer of src/src/main.rs: the CRC-32 and *)
(* Adler-32 engines, fake_zlib::compress (stored DEFLATE blocks) and       *)
(* write / png_pack.                                                       *)
(*                                                                         *)
(* Numbers that can exceed 2^31 - 1 (u32 and usize values, and the         *)
(* exact products the properties speak of) are kept exactly, as            *)
(* little-endian sequences of base-256 digits without high zero digits.    *)
(***************************************************************************)
EXTENDS Integers, Sequences, FiniteSets, TLC

----------------------------------------------------------------------------
(* Exact naturals: little-endian base-256 digit sequences, <<>> is 0.      *)

RECURSIVE Norm(_)
Norm(n) ==
    IF n = <<>> THEN <<>>
    ELSE IF n[Len(n)] = 0 THEN Norm(SubSeq(n, 1, Len(n) - 1))
    ELSE n

RECURSIVE N(_)
N(i) == IF i = 0 THEN <<>> ELSE <<i % 256>> \o N(i \div 256)

RECURSIVE Val(_)
Val(n) == IF n = <<>> THEN 0 ELSE n[1] + 256 * Val(Tail(n))

Digit(n, k) == IF k <= Len(n) THEN n[k] ELSE 0

Max(x, y) == IF x >= y THEN x ELSE y
Min(x, y) == IF x <= y THEN x ELSE y

RECURSIVE AddFrom(_, _, _, _)
AddFrom(a, b, k, carry) ==
    IF k > Max(Len(a), Len(b))
    THEN IF carry = 0 THEN <<>> ELSE <<carry>>
    ELSE LET s == Digit(a, k) + Digit(b, k) + carry
         IN  <<s % 256>> \o AddFrom(a, b, k + 1, s \div 256)

NAdd(a, b) == Norm(AddFrom(a, b, 1, 0))

RECURSIVE LessFrom(_, _, _)
LessFrom(a, b, k) ==
    IF k = 0 THEN FALSE
    ELSE IF Digit(a, k) # Digit(b, k) THEN Digit(a, k) < Digit(b, k)
    ELSE LessFrom(a, b, k - 1)

NLess(a, b) == LessFrom(a, b, Max(Len(a), Len(b)))

RECURSIVE SubFrom(_, _, _, _)
SubFrom(a, b, k, borrow) ==
    IF k > Len(a) THEN <<>>
    ELSE LET s == Digit(a, k) - Digit(b, k) - borrow
         IN  IF s < 0
             THEN <<s + 256>> \o SubFrom(a, b, k + 1, 1)
             ELSE <<s>> \o SubFrom(a, b, k + 1, 0)

\* a - b for a >= b
NSub(a, b) == Norm(SubFrom(a, b, 1, 0))

RECURSIVE ScaleFrom(_, _, _, _)
ScaleFrom(a, d, k, carry) ==
    IF k > Len(a)
    THEN IF carry = 0 THEN <<>> ELSE <<carry>>
    ELSE LET s == a[k] * d + carry
         IN  <<s % 256>> \o ScaleFrom(a, d, k + 1, s \div 256)

RECURSIVE NMul(_, _)
NMul(a, b) ==
    IF b = <<>> THEN <<>>
    ELSE NAdd(Norm(ScaleFrom(a, b[1], 1, 0)), Norm(<<0>> \o NMul(a, Tail(b))))

----------------------------------------------------------------------------
(* Fixed-width machine integers.                                           *)

\* does the exact value fit a u32
Fits32(n) == Len(n) <= 4

\* the value reduced modulo 2^32 (wrapping arithmetic, `as u32`)
Wrap32(n) == Norm(SubSeq(n, 1, Min(Len(n), 4)))

\* main.rs:96-98
u32_to_u8_be(v) == <<Digit(v, 4), Digit(v, 3), Digit(v, 2), Digit(v, 1)>>

----------------------------------------------------------------------------
(* Bit operations on bytes.                                                *)

RECURSIVE BitXor(_, _)
BitXor(x, y) ==
    IF x = 0 THEN y
    ELSE IF y = 0 THEN x
    ELSE ((x + y) % 2) + 2 * BitXor(x \div 2, y \div 2)

RECURSIVE BitOr(_, _)
BitOr(x, y) ==
    IF x = 0 THEN y
    ELSE IF y = 0 THEN x
    ELSE Max(x % 2, y % 2) + 2 * BitOr(x \div 2, y \div 2)

----------------------------------------------------------------------------
(* mod adler32, main.rs:54-92.  a and b are u32 fields; their values stay  *)
(* far below 2^31, so they are plain integers here.                        *)

MOD_ADLER == 65521

\* Adler32::new, Adler32::start
Adler32New == [a |-> 1, b |-> 0]

\* body of the loop of Adler32::update, one byte
AdlerByte(s, i) ==
    LET a == (s.a + i) % MOD_ADLER
    IN  [a |-> a, b |-> (a + s.b) % MOD_ADLER]

\* the bytes buf[lo..hi] folded in index order; the test on `left` makes the
\* lower half be evaluated before the upper half is entered
RECURSIVE AdlerRange(_, _, _, _)
AdlerRange(s, buf, lo, hi) ==
    IF lo > hi THEN s
    ELSE IF lo = hi THEN AdlerByte(s, buf[lo])
    ELSE LET mid == (lo + hi) \div 2
             left == AdlerRange(s, buf, lo, mid)
         IN  IF left.a >= 0 THEN AdlerRange(left, buf, mid + 1, hi) ELSE left

\* Adler32::update
AdlerUpdate(s, buf) == AdlerRange(s, buf, 1, Len(buf))

\* Adler32::finalize: (b << 16) | a in u32, bits shifted out are lost
AdlerFinalize(s) ==
    Norm(<< s.a % 256,
            (s.a \div 256) % 256,
            BitOr(s.b % 256, (s.a \div 65536) % 256),
            BitOr((s.b \div 256) % 256, (s.a \div 16777216) % 256) >>)

\* Adler32::crc
AdlerCrc(buf) == AdlerFinalize(AdlerUpdate(Adler32New, buf))

----------------------------------------------------------------------------
(* mod fake_zlib, main.rs:100-157.  The vector raw_data of compress is     *)
(* kept as the sequence of its extend calls: each piece is literal bytes   *)
(* or a range data[from..to] of the input; VecBytes gives its bytes.       *)

CHUNK_SIZE == 65530

\* raw_data.extend(bytes) and raw_data.extend(&data[from..to])
Lit(bytes) == [lit |-> bytes, from |-> 0, to |-> 0]
Ref(from, to) == [lit |-> <<>>, from |-> from, to |-> to]

\* raw_data.len()
RECURSIVE VecLen(_)
VecLen(v) ==
    IF v = <<>> THEN 0
    ELSE Len(Head(v).lit) + (Head(v).to - Head(v).from) + VecLen(Tail(v))

\* the bytes of raw_data, d being the input
RECURSIVE VecBytes(_, _)
VecBytes(v, d) ==
    IF v = <<>> THEN <<>>
    ELSE Head(v).lit \o SubSeq(d, Head(v).from + 1, Head(v).to)
            \o VecBytes(Tail(v), d)

\* final_len without the extra chunk of the empty input
FinalLenNoEmpty(d) ==
    2 + (5 * (LET n == Len(d) \div CHUNK_SIZE
              IN  n + (IF Len(d) # n * CHUNK_SIZE THEN 1 ELSE 0)))
      + Len(d) + 4

\* final_len of compress
FinalLen(d) ==
    2 + (5 * (LET n == Len(d) \div CHUNK_SIZE
              IN  n + (IF Len(d) # n * CHUNK_SIZE \/ Len(d) = 0 THEN 1 ELSE 0)))
      + Len(d) + 4

\* the block header with LEN and NLEN written high byte first
BlockHeaderBigEndian(is_last, chunk_len) ==
    << IF is_last THEN 1 ELSE 0,
       (chunk_len \div 256) % 256,
       chunk_len % 256,
       255 - ((chunk_len \div 256) % 256),
       255 - (chunk_len % 256) >>

\* the block header with NLEN the bytewise negation of LEN
BlockHeaderNegated(is_last, chunk_len) ==
    << IF is_last THEN 1 ELSE 0,
       chunk_len % 256,
       (chunk_len \div 256) % 256,
       (256 - (chunk_len % 256)) % 256,
       (256 - ((chunk_len \div 256) % 256)) % 256 >>

\* the five bytes that open a stored block
BlockHeader(is_last, chunk_len) ==
    << IF is_last THEN 1 ELSE 0,
       chunk_len % 256,
       (chunk_len \div 256) % 256,
       255 - (chunk_len % 256),
       255 - ((chunk_len \div 256) % 256) >>

\* the loop iteration with an Adler-32 engine made anew for each block
CompressIterFreshAdler(d, c) ==
    LET pos_next == Min(Len(d), c.pos_curr + CHUNK_SIZE)
        chunk_len == pos_next - c.pos_curr
        is_last == (pos_next = Len(d))
        chunk == SubSeq(d, c.pos_curr + 1, pos_next)
    IN  [raw_data |-> c.raw_data \o << Lit(BlockHeader(is_last, chunk_len)),
                                       Ref(c.pos_curr, pos_next) >>,
         pos_curr |-> IF is_last THEN c.pos_curr ELSE pos_next,
         crc |-> AdlerUpdate(Adler32New, chunk),
         is_last |-> is_last]

\* one iteration of the loop of compress, on c = [raw_data, pos_curr, crc, is_last]
CompressIter(d, c) ==
    LET pos_next == Min(Len(d), c.pos_curr + CHUNK_SIZE)
        chunk_len == pos_next - c.pos_curr
        is_last == (pos_next = Len(d))
        chunk == SubSeq(d, c.pos_curr + 1, pos_next)
    IN  [raw_data |-> c.raw_data \o << Lit(BlockHeader(is_last, chunk_len)),
                                       Ref(c.pos_curr, pos_next) >>,
         pos_curr |-> IF is_last THEN c.pos_curr ELSE pos_next,
         crc |-> AdlerUpdate(c.crc, chunk),
         is_last |-> is_last]

\* the state of compress when it enters the loop
CompressBegin ==
    [raw_data |-> << Lit(<<120, 1>>) >>, pos_curr |-> 0, crc |-> Adler32New,
     is_last |-> FALSE]

RECURSIVE CompressLoop(_, _)
CompressLoop(d, c) ==
    LET c2 == CompressIter(d, c)
    IN  IF c2.is_last THEN c2 ELSE CompressLoop(d, c2)

\* raw_data after the trailer is appended
CompressTrailer(c) == c.raw_data \o << Lit(u32_to_u8_be(AdlerFinalize(c.crc))) >>

\* compress as a function: the bytes returned, or a failed assert_eq
compress(d) ==
    LET out == CompressTrailer(CompressLoop(d, CompressBegin))
    IN  IF FinalLen(d) = VecLen(out)
        THEN [ok |-> TRUE, bytes |-> VecBytes(out, d)]
        ELSE [ok |-> FALSE, bytes |-> <<>>]


----------------------------------------------------------------------------
(* mod crc32, main.rs:1-52.  u32 values are exact naturals (digit          *)
(* sequences); the bit operations act on their four bytes.                 *)

\* 0xedb88320
CRC32_INITIAL == <<32, 131, 184, 237>>

\* 0xffffffff
AllOnes32 == <<255, 255, 255, 255>>

\* a ^ b on u32
Xor32(a, b) == Norm([k \in 1..4 |-> BitXor(Digit(a, k), Digit(b, k))])

\* v >> 1 on u32
Shr1(v) == Norm([k \in 1..4 |-> (Digit(v, k) \div 2) + 128 * (Digit(v, k + 1) % 2)])

\* v >> 8 on u32
Shr8(v) == IF v = <<>> THEN <<>> ELSE Tail(v)

\* the body of the inner loop of Crc32::new
TableStep(v) ==
    IF Digit(v, 1) % 2 # 0 THEN Xor32(CRC32_INITIAL, Shr1(v)) ELSE Shr1(v)

\* c.table[i] as Crc32::new leaves it: eight steps from i
TableEntry(i) ==
    TableStep(TableStep(TableStep(TableStep(
    TableStep(TableStep(TableStep(TableStep(N(i)))))))))

\* Crc32::new
Crc32New == [table |-> [i \in 0..255 |-> TableEntry(i)], value |-> AllOnes32]

\* Crc32::start
Crc32Start(c) == [c EXCEPT !.value = AllOnes32]

\* the body of the loop of Crc32::update, one byte
Crc32Byte(c, i) ==
    [c EXCEPT !.value = Xor32(c.table[BitXor(Digit(c.value, 1), i)], Shr8(c.value))]

\* Crc32::update
RECURSIVE Crc32Update(_, _)
Crc32Update(c, buf) ==
    IF buf = <<>> THEN c
    ELSE Crc32Update(Crc32Byte(c, Head(buf)), Tail(buf))

\* Crc32::finalize
Crc32Finalize(c) == Xor32(c.value, AllOnes32)

\* crc that does not call start
Crc32CrcNoStart(c, buf) ==
    LET c2 == Crc32Update(c, buf)
    IN  [engine |-> c2, ret |-> Crc32Finalize(c2)]

\* Crc32::crc: the engine it leaves and the value it returns
Crc32Crc(c, buf) ==
    LET c2 == Crc32Update(Crc32Start(c), buf)
    IN  [engine |-> c2, ret |-> Crc32Finalize(c2)]


----------------------------------------------------------------------------
(* State.                                                                  *)

VARIABLES
    \* one call of write, main.rs:162-219
    build,          \* "debug": arithmetic overflow panics; "release": it wraps
    width,          \* u32 argument
    height,         \* u32 argument
    image,          \* the pixel slice: [len, seed], byte i is PixelAt(image, i)
    pc,             \* position in write
    chunk,          \* the chunk png_pack is writing
    packpos,        \* which of the four write_all calls of png_pack is next
    payload,        \* the `data` argument of png_pack
    sink,           \* the bytes the sink has accepted
    io,             \* the write_all calls so far: [calls, failed_at, err]
    result,         \* [kind, err]: "running", "Ok", "Err" or "panic"
    width_byte_4,
    final_len,
    raw_data,       \* the scanline stream
    span,
    table_builds,   \* how many times Crc32::new has run
    \* one call of fake_zlib::compress on its own, main.rs:105-156
    z_pc,
    z_data,         \* the argument `data`: [len, seed], its bytes are Data
    z_final_len,
    z_c,            \* [raw_data, pos_curr, crc, is_last]
    \* one Crc32 engine driven by a caller, main.rs:10-51
    e_engine,       \* [table, value], or <<>> before new
    e_ret,          \* what the last finalize or crc returned
    e_hist          \* the calls made on the engine, oldest first: [op, buf]

write_vars ==
    << build, width, height, image, pc, chunk, packpos, payload, sink, io,
       result, width_byte_4, final_len, raw_data, span, table_builds >>
zlib_vars == << z_pc, z_data, z_final_len, z_c >>
crc_vars == << e_engine, e_ret, e_hist >>
vars == << write_vars, zlib_vars, crc_vars >>

\* the parts of the state a specification does not use
WriteIdle ==
    /\ build = "release" /\ width = <<>> /\ height = <<>>
    /\ image = [len |-> <<>>, seed |-> 0]
    /\ pc = "idle" /\ chunk = "none" /\ packpos = 0 /\ payload = <<>>
    /\ sink = <<>> /\ io = [calls |-> 0, failed_at |-> 0, err |-> "none"]
    /\ result = [kind |-> "running", err |-> "none"]
    /\ width_byte_4 = <<>> /\ final_len = <<>> /\ raw_data = <<>> /\ span = <<>>
    /\ table_builds = 0
ZlibIdle ==
    /\ z_pc = "idle" /\ z_data = [len |-> 0, seed |-> 0] /\ z_final_len = 0
    /\ z_c = CompressBegin
CrcIdle ==
    /\ e_engine = <<>> /\ e_ret = <<>> /\ e_hist = <<>>


----------------------------------------------------------------------------
(* u32 arithmetic of write.  An operation yields the wrapped value and     *)
(* whether the exact value left the range; a debug build panics on the     *)
(* latter, a release build goes on with the wrapped value.                 *)

One == <<1>>
Four == <<4>>
Pow30 == <<0, 0, 0, 64>>
Pow32 == <<0, 0, 0, 0, 1>>

Mul32(a, b) == [ovf |-> ~Fits32(NMul(a, b)), val |-> Wrap32(NMul(a, b))]
Add32(a, b) == [ovf |-> ~Fits32(NAdd(a, b)), val |-> Wrap32(NAdd(a, b))]
Sub32(a, b) ==
    IF NLess(a, b)
    THEN [ovf |-> TRUE, val |-> NSub(NAdd(a, Pow32), b)]
    ELSE [ovf |-> FALSE, val |-> NSub(a, b)]

\* `x as u32` for a usize x
AsU32(n) == Wrap32(n)

\* byte i (from 0) of the pixel slice
PixelAt(img, i) ==
    (7 * Digit(i, 1) + 13 * Digit(i, 2) + 31 * img.seed + 1) % 256

\* &image[from..to] for from <= to <= image.len()
Slice(img, from, to) ==
    [k \in 1..Val(NSub(to, from)) |-> PixelAt(img, NAdd(from, N(k - 1)))]

----------------------------------------------------------------------------
(* write and png_pack, main.rs:162-219.                                    *)

\* b"\x89PNG\r\n\x1a\n"
Signature == <<137, 80, 78, 71, 13, 10, 26, 10>>

\* b"IHDR", b"IDAT", b"IEND"
TagBytes(t) ==
    CASE t = "IHDR" -> <<73, 72, 68, 82>>
      [] t = "IDAT" -> <<73, 68, 65, 84>>
      [] t = "IEND" -> <<73, 69, 78, 68>>

\* the 13 bytes of IHDR data
IhdrData(w, h) == u32_to_u8_be(w) \o u32_to_u8_be(h) \o <<8, 6, 0, 0, 0>>

\* one table built on first use and shared by the chunks after it
NewCrcShared(n) == [crc |-> Crc32New, builds |-> IF n = 0 THEN 1 ELSE n]

\* png_pack: the engine built for one chunk, and the count of tables built
NewCrcForChunk(n) == [crc |-> Crc32New, builds |-> n + 1]

\* png_pack: the value crc.finalize() returns for a chunk
ChunkCrc(engine, tag, d) ==
    Crc32Finalize(Crc32Update(Crc32Update(Crc32Start(engine), TagBytes(tag)), d))

\* png_pack: the buffer of its k-th write_all, k = 0, 1, 2
PackBuf(tag, d, k) ==
    CASE k = 0 -> u32_to_u8_be(AsU32(N(Len(d))))
      [] k = 1 -> TagBytes(tag)
      [] k = 2 -> d

\* a write_all whose result is dropped
TryIgnore(outcome, next) ==
    [pc |-> next, result |-> [kind |-> "running", err |-> "none"]]

\* the `?` operator: an Err leaves write at once with that Err
Try(outcome, next) ==
    IF outcome.kind = "Err"
    THEN [pc |-> "done", result |-> outcome]
    ELSE [pc |-> next, result |-> [kind |-> "running", err |-> "none"]]

Running == [kind |-> "running", err |-> "none"]
Panic == [kind |-> "panic", err |-> "none"]
Errors == {"WriteZero", "Other"}

\* file.write_all(buf)?, then go to `next`.  write_all either takes the whole
\* buffer, or fails after the sink took fewer than Len(buf) bytes; an empty
\* buffer never reaches the sink.
WriteAll(buf, next) ==
    \/ /\ sink' = sink \o buf
       /\ io' = [io EXCEPT !.calls = @ + 1]
       /\ LET t == Try([kind |-> "Ok", err |-> "none"], next)
          IN  pc' = t.pc /\ result' = t.result
    \/ \E k \in 0..(Len(buf) - 1), e \in Errors :
          /\ sink' = sink \o SubSeq(buf, 1, k)
          /\ io' = [calls |-> io.calls + 1,
                    failed_at |-> IF io.err = "none" THEN io.calls + 1
                                  ELSE io.failed_at,
                    err |-> IF io.err = "none" THEN e ELSE io.err]
          /\ LET t == Try([kind |-> "Err", err |-> e], next)
             IN  pc' = t.pc /\ result' = t.result

DoPanic == pc' = "done" /\ result' = Panic

\* main.rs:168
WAssert ==
    /\ pc = "assert"
    /\ LET wh == Mul32(width, height)
           wh4 == Mul32(wh.val, Four)
       IN  IF build = "debug" /\ (wh.ovf \/ wh4.ovf)
           THEN DoPanic
           ELSE IF wh4.val = AsU32(image.len)
                THEN pc' = "sig" /\ result' = result
                ELSE DoPanic
    /\ UNCHANGED << build, width, height, image, chunk, packpos, payload, sink,
                    io, width_byte_4, final_len, raw_data, span, table_builds >>
    /\ UNCHANGED << zlib_vars, crc_vars >>

\* main.rs:188
WSignature ==
    /\ pc = "sig"
    /\ WriteAll(Signature, "ihdr")
    /\ UNCHANGED << build, width, height, image, chunk, packpos, payload,
                    width_byte_4, final_len, raw_data, span, table_builds >>
    /\ UNCHANGED << zlib_vars, crc_vars >>

\* main.rs:190-195: the call of png_pack for IHDR
WIhdr ==
    /\ pc = "ihdr"
    /\ pc' = "pack" /\ chunk' = "IHDR" /\ packpos' = 0
    /\ payload' = IhdrData(width, height)
    /\ UNCHANGED << build, width, height, image, sink, io, result, width_byte_4,
                    final_len, raw_data, span, table_builds >>
    /\ UNCHANGED << zlib_vars, crc_vars >>

\* where write goes on after png_pack(chunk) returned Ok
AfterPack(t) == IF t = "IHDR" THEN "scan" ELSE IF t = "IDAT" THEN "iend" ELSE "ok"

\* main.rs:175-177: the first three write_all calls of png_pack
PngPackWrite ==
    /\ pc = "pack" /\ packpos < 3
    /\ WriteAll(PackBuf(chunk, payload, packpos), "pack")
    /\ packpos' = IF pc' = "pack" THEN packpos + 1 ELSE packpos
    /\ UNCHANGED << build, width, height, image, chunk, payload, width_byte_4,
                    final_len, raw_data, span, table_builds >>
    /\ UNCHANGED << zlib_vars, crc_vars >>

\* main.rs:178-185: the CRC of the chunk, its write_all, and the return
PngPackCrc ==
    /\ pc = "pack" /\ packpos = 3
    /\ LET n == NewCrcForChunk(table_builds)
       IN  /\ table_builds' = n.builds
           /\ WriteAll(u32_to_u8_be(ChunkCrc(n.crc, chunk, payload)),
                       AfterPack(chunk))
    /\ UNCHANGED << build, width, height, image, chunk, packpos, payload,
                    width_byte_4, final_len, raw_data, span >>
    /\ UNCHANGED << zlib_vars, crc_vars >>

\* main.rs:199-202
WScan ==
    /\ pc = "scan"
    /\ LET wb4 == Mul32(width, Four)
           wb41 == Add32(wb4.val, One)
           fl == Mul32(wb41.val, height)
           hm1 == Sub32(height, One)
           sp == Mul32(hm1.val, wb4.val)
       IN  IF build = "debug" /\ (wb4.ovf \/ wb41.ovf \/ fl.ovf \/ hm1.ovf \/ sp.ovf)
           THEN /\ DoPanic
                /\ UNCHANGED << width_byte_4, final_len, span >>
           ELSE /\ width_byte_4' = wb4.val
                /\ final_len' = fl.val
                /\ span' = sp.val
                /\ pc' = "row" /\ result' = result
    /\ raw_data' = <<>>
    /\ UNCHANGED << build, width, height, image, chunk, packpos, payload, sink,
                    io, table_builds >>
    /\ UNCHANGED << zlib_vars, crc_vars >>

\* main.rs:203-210: one iteration of the scanline loop
WRow ==
    /\ pc = "row"
    /\ LET to == Add32(span, width_byte_4)
           dec == Sub32(span, width_byte_4)
       IN  IF \/ build = "debug" /\ to.ovf
              \/ NLess(to.val, span)
              \/ NLess(image.len, to.val)
           THEN DoPanic /\ UNCHANGED << raw_data, span >>
           ELSE /\ raw_data' = raw_data \o <<0>> \o Slice(image, span, to.val)
                /\ IF span = <<>>
                   THEN pc' = "scan_assert" /\ result' = result /\ span' = span
                   ELSE IF build = "debug" /\ dec.ovf
                        THEN DoPanic /\ span' = span
                        ELSE pc' = "row" /\ result' = result /\ span' = dec.val
    /\ UNCHANGED << build, width, height, image, chunk, packpos, payload, sink,
                    io, width_byte_4, final_len, table_builds >>
    /\ UNCHANGED << zlib_vars, crc_vars >>

\* main.rs:211
WScanAssert ==
    /\ pc = "scan_assert"
    /\ IF final_len = AsU32(N(Len(raw_data)))
       THEN pc' = "compress" /\ result' = result
       ELSE DoPanic
    /\ UNCHANGED << build, width, height, image, chunk, packpos, payload, sink,
                    io, width_byte_4, final_len, raw_data, span, table_builds >>
    /\ UNCHANGED << zlib_vars, crc_vars >>

\* main.rs:213: the call of fake_zlib::compress
WCompress ==
    /\ pc = "compress"
    /\ LET z == compress(raw_data)
       IN  IF z.ok
           THEN /\ pc' = "pack" /\ result' = result
                /\ chunk' = "IDAT" /\ packpos' = 0 /\ payload' = z.bytes
           ELSE DoPanic /\ UNCHANGED << chunk, packpos, payload >>
    /\ UNCHANGED << build, width, height, image, sink, io, width_byte_4,
                    final_len, raw_data, span, table_builds >>
    /\ UNCHANGED << zlib_vars, crc_vars >>

\* main.rs:216: the call of png_pack for IEND
WIend ==
    /\ pc = "iend"
    /\ pc' = "pack" /\ chunk' = "IEND" /\ packpos' = 0 /\ payload' = <<>>
    /\ UNCHANGED << build, width, height, image, sink, io, result, width_byte_4,
                    final_len, raw_data, span, table_builds >>
    /\ UNCHANGED << zlib_vars, crc_vars >>

\* main.rs:218
WReturnOk ==
    /\ pc = "ok"
    /\ pc' = "done" /\ result' = [kind |-> "Ok", err |-> "none"]
    /\ UNCHANGED << build, width, height, image, chunk, packpos, payload, sink,
                    io, width_byte_4, final_len, raw_data, span, table_builds >>
    /\ UNCHANGED << zlib_vars, crc_vars >>


\* the arguments write is called with
MaxDim == 2
Dims == {N(i) : i \in 0..MaxDim} \cup {Pow30, NAdd(Pow30, One)}
Seeds == {0, 1}
Builds == {"debug", "release"}

\* the exact product width * height * 4
MathLen(w, h) == NMul(NMul(w, h), Four)

\* lengths of the pixel slice: the exact product, one off it, and the
\* lengths that agree with it modulo 2^32
ImageLens(w, h) ==
    LET p == MathLen(w, h)
    IN  {p, NAdd(p, One), NAdd(p, Pow32), Wrap32(p)}
            \cup (IF p = <<>> THEN {} ELSE {NSub(p, One)})

Init ==
    /\ build \in Builds
    /\ width \in Dims
    /\ height \in Dims
    /\ image \in {[len |-> l, seed |-> sd] : l \in ImageLens(width, height), sd \in Seeds}
    /\ pc = "assert" /\ chunk = "none" /\ packpos = 0 /\ payload = <<>>
    /\ sink = <<>> /\ io = [calls |-> 0, failed_at |-> 0, err |-> "none"]
    /\ result = Running
    /\ width_byte_4 = <<>> /\ final_len = <<>> /\ raw_data = <<>> /\ span = <<>>
    /\ table_builds = 0
    /\ ZlibIdle /\ CrcIdle

Next ==
    \/ WAssert
    \/ WSignature
    \/ WIhdr
    \/ PngPackWrite
    \/ PngPackCrc
    \/ WScan
    \/ WRow
    \/ WScanAssert
    \/ WCompress
    \/ WIend
    \/ WReturnOk

Spec == Init /\ [][Next]_vars

----------------------------------------------------------------------------
(* fake_zlib::compress step by step, on inputs of the sizes where the      *)
(* partition into blocks changes.                                          *)

MaxBlocks == 2
ZSeeds == {0, 7, 255}
ZLens == {n \in {k * CHUNK_SIZE + d : k \in 0..MaxBlocks, d \in {-1, 0, 1}} : n >= 0}

GenByte(sd, i) ==
    IF sd = 0 \/ sd = 255 THEN sd ELSE (i * sd + i \div 256) % 256
\* the bytes of the argument `data`
Data == <<>> \o [i \in 1..z_data.len |-> GenByte(z_data.seed, i)]

\* main.rs:108-127
ZBegin ==
    /\ z_pc = "begin"
    /\ z_final_len' = FinalLen(Data)
    /\ z_c' = CompressBegin
    /\ z_pc' = "loop"
    /\ UNCHANGED z_data
    /\ UNCHANGED << write_vars, crc_vars >>

\* main.rs:128-150
ZIter ==
    /\ z_pc = "loop"
    /\ z_c' = CompressIter(Data, z_c)
    /\ z_pc' = IF z_c'.is_last THEN "trailer" ELSE "loop"
    /\ UNCHANGED << z_data, z_final_len >>
    /\ UNCHANGED << write_vars, crc_vars >>

\* main.rs:152
ZTrailer ==
    /\ z_pc = "trailer"
    /\ z_c' = [z_c EXCEPT !.raw_data = CompressTrailer(z_c)]
    /\ z_pc' = "assert"
    /\ UNCHANGED << z_data, z_final_len >>
    /\ UNCHANGED << write_vars, crc_vars >>

\* main.rs:154-155
ZAssert ==
    /\ z_pc = "assert"
    /\ z_pc' = IF z_final_len = VecLen(z_c.raw_data) THEN "returned" ELSE "panic"
    /\ UNCHANGED << z_data, z_final_len, z_c >>
    /\ UNCHANGED << write_vars, crc_vars >>

InitZlib ==
    /\ z_data \in {[len |-> n, seed |-> sd] : n \in ZLens, sd \in ZSeeds}
    /\ z_pc = "begin" /\ z_final_len = 0 /\ z_c = CompressBegin
    /\ WriteIdle /\ CrcIdle

NextZlib ==
    \/ ZBegin
    \/ ZIter
    \/ ZTrailer
    \/ ZAssert

SpecZlib == InitZlib /\ [][NextZlib]_vars

----------------------------------------------------------------------------
(* One Crc32 engine and a caller that makes any calls on it.               *)

MaxCalls == 3

\* "123456789"
CheckInput == <<49, 50, 51, 52, 53, 54, 55, 56, 57>>
Bufs == {<<>>, <<0>>, <<255, 1>>, CheckInput}

ENew ==
    /\ e_engine = <<>>
    /\ e_engine' = Crc32New
    /\ UNCHANGED << e_ret, e_hist >>
    /\ UNCHANGED << write_vars, zlib_vars >>

EStart ==
    /\ e_engine # <<>> /\ Len(e_hist) < MaxCalls
    /\ e_engine' = Crc32Start(e_engine)
    /\ e_hist' = Append(e_hist, [op |-> "start", buf |-> <<>>])
    /\ UNCHANGED e_ret
    /\ UNCHANGED << write_vars, zlib_vars >>

EUpdate ==
    /\ e_engine # <<>> /\ Len(e_hist) < MaxCalls
    /\ \E buf \in Bufs :
          /\ e_engine' = Crc32Update(e_engine, buf)
          /\ e_hist' = Append(e_hist, [op |-> "update", buf |-> buf])
    /\ UNCHANGED e_ret
    /\ UNCHANGED << write_vars, zlib_vars >>

EFinalize ==
    /\ e_engine # <<>> /\ Len(e_hist) < MaxCalls
    /\ e_ret' = Crc32Finalize(e_engine)
    /\ e_hist' = Append(e_hist, [op |-> "finalize", buf |-> <<>>])
    /\ UNCHANGED e_engine
    /\ UNCHANGED << write_vars, zlib_vars >>

ECrc ==
    /\ e_engine # <<>> /\ Len(e_hist) < MaxCalls
    /\ \E buf \in Bufs :
          LET r == Crc32Crc(e_engine, buf)
          IN  /\ e_engine' = r.engine
              /\ e_ret' = r.ret
              /\ e_hist' = Append(e_hist, [op |-> "crc", buf |-> buf])
    /\ UNCHANGED << write_vars, zlib_vars >>

InitCrc == CrcIdle /\ WriteIdle /\ ZlibIdle

NextCrc ==
    \/ ENew
    \/ EStart
    \/ EUpdate
    \/ EFinalize
    \/ ECrc

SpecCrc == InitCrc /\ [][NextCrc]_vars


----------------------------------------------------------------------------
(* Readers of the formats, used to state the properties.                   *)

IsPrefix(p, q) == Len(p) <= Len(q) /\ p = SubSeq(q, 1, Len(p))

TagName(b) ==
    IF b = TagBytes("IHDR") THEN "IHDR"
    ELSE IF b = TagBytes("IDAT") THEN "IDAT"
    ELSE IF b = TagBytes("IEND") THEN "IEND"
    ELSE "other"

\* the tags of the chunks that start at index p of b; "broken" ends the list
\* when the bytes from p on are not a whole chunk
RECURSIVE ChunkTags(_, _)
ChunkTags(b, p) ==
    IF p = Len(b) + 1 THEN <<>>
    ELSE IF p + 11 > Len(b) THEN <<"broken">>
    ELSE LET len == Norm(<<b[p + 3], b[p + 2], b[p + 1], b[p]>>)
         IN  IF NLess(N(Len(b) - p - 11), len) THEN <<"broken">>
             ELSE <<TagName(SubSeq(b, p + 4, p + 7))>>
                      \o ChunkTags(b, p + 12 + Val(len))

\* the tags of the chunks of a PNG byte stream
PngTags(b) ==
    IF ~IsPrefix(Signature, b) THEN <<"broken">>
    ELSE ChunkTags(b, Len(Signature) + 1)

\* the stored blocks that start at index p of z, read as a DEFLATE decoder
\* reads them; flag -1 marks bytes that are not a whole block
RECURSIVE StoredBlocks(_, _)
StoredBlocks(z, p) ==
    IF p + 4 > Len(z)
    THEN << [flag |-> -1, len |-> 0, nlen |-> 0, from |-> p, to |-> p - 1] >>
    ELSE LET len == z[p + 1] + 256 * z[p + 2]
             blk == [flag |-> z[p], len |-> len,
                     nlen |-> z[p + 3] + 256 * z[p + 4],
                     from |-> p + 5, to |-> p + 4 + len]
         IN  IF blk.to > Len(z) THEN << [blk EXCEPT !.flag = -1] >>
             ELSE IF blk.flag = 0 THEN <<blk>> \o StoredBlocks(z, blk.to + 1)
             ELSE <<blk>>

RECURSIVE Payloads(_, _)
Payloads(z, bs) ==
    IF bs = <<>> THEN <<>>
    ELSE SubSeq(z, Head(bs).from, Head(bs).to) \o Payloads(z, Tail(bs))

\* a zlib stream of stored blocks decoded: header, blocks up to the final
\* one, 4-byte trailer
Inflate(z) ==
    IF ~IsPrefix(<<120, 1>>, z)
    THEN [ok |-> FALSE, data |-> <<>>, left |-> 0]
    ELSE LET bs == StoredBlocks(z, 3)
             last == bs[Len(bs)]
             ok == /\ last.flag = 1
                   /\ \A i \in 1..Len(bs) : bs[i].len + bs[i].nlen = 65535
         IN  [ok |-> ok,
              data |-> IF ok THEN Payloads(z, bs) ELSE <<>>,
              left |-> Len(z) - last.to - 4]

\* max(1, ceil(n / 65530))
NumChunks(n) == Max(1, (n + CHUNK_SIZE - 1) \div CHUNK_SIZE)

\* the states the Adler-32 engine passes through on buf[lo..hi] all have
\* a and b below 65521; [s, ok] with s the state after hi
RECURSIVE AdlerBelow(_, _, _, _)
AdlerBelow(s, buf, lo, hi) ==
    IF lo > hi THEN [s |-> s, ok |-> TRUE]
    ELSE IF lo = hi
         THEN LET t == AdlerByte(s, buf[lo])
              IN  [s |-> t, ok |-> t.a < 65521 /\ t.b < 65521]
    ELSE LET mid == (lo + hi) \div 2
             left == AdlerBelow(s, buf, lo, mid)
         IN  IF left.ok THEN AdlerBelow(left.s, buf, mid + 1, hi) ELSE left


----------------------------------------------------------------------------
(* Properties.                                                             *)

\* the precondition of write: pixels.len() is the exact product
ValidInput == image.len = MathLen(width, height)

\* C1: for every valid (width, height, pixels), zero width and height
\* included, write on a sink that never fails returns Ok and the sink holds
\* the signature followed by exactly the chunks IHDR, IDAT, IEND.
C1_OkWithThreeChunks ==
    (ValidInput /\ io.err = "none" /\ pc = "done")
        => /\ result.kind = "Ok"
           /\ PngTags(sink) = <<"IHDR", "IDAT", "IEND">>

\* C2: decoding compress(D) as a zlib stream of stored blocks (header 78 01,
\* blocks up to the one flagged final, 4-byte trailer) gives back exactly D
\* and leaves no byte over.
C2_RoundTrip ==
    z_pc = "returned"
        => LET r == Inflate(VecBytes(z_c.raw_data, Data))
           IN  r.ok /\ r.left = 0 /\ r.data = Data

\* a returned stream of more than one block
C2_Witness == z_pc = "returned" /\ z_data.len = CHUNK_SIZE + 1

\* C3: compress never fails its assert_eq: the length of its output is
\* 2 + 5*numChunks(D) + len(D) + 4 with numChunks(D) = max(1, ceil(len(D)/65530)),
\* which is final_len and also the number of blocks emitted.
C3_LengthClosedForm ==
    /\ z_pc # "panic"
    /\ z_pc \in {"assert", "returned"}
          => LET z == VecBytes(z_c.raw_data, Data)
             IN  /\ Len(z) = 2 + 5 * NumChunks(z_data.len) + z_data.len + 4
                 /\ z_final_len = Len(z)
                 /\ Len(StoredBlocks(z, 3)) = NumChunks(z_data.len)

\* the assert_eq passed on an input that is an exact multiple of 65530
C3_Witness == z_pc = "returned" /\ z_data.len = 2 * CHUNK_SIZE

\* C4: the scanline stream handed to compress has height rows of 1 + width*4
\* bytes, row k being the filter byte 0 followed by input row height-1-k.
C4_ScanlinesReversed ==
    (ValidInput /\ pc = "compress")
        => /\ N(Len(raw_data)) = NMul(height, NAdd(One, NMul(width, Four)))
           /\ LET row == 1 + 4 * Val(width)
              IN  \A k \in 0..(Val(height) - 1) :
                     SubSeq(raw_data, k * row + 1, (k + 1) * row)
                        = <<0>> \o Slice(image,
                                         N((Val(height) - 1 - k) * (row - 1)),
                                         N((Val(height) - k) * (row - 1)))

\* C5: when pixels.len() is not the exact product width*height*4, write
\* aborts: it returns neither Ok nor Err.
C5_MismatchAborts ==
    ~ValidInput => result.kind \notin {"Ok", "Err"}

\* the chunk with tag t and data d as png_pack writes it
ChunkBytes(t, d) ==
    PackBuf(t, d, 0) \o PackBuf(t, d, 1) \o PackBuf(t, d, 2)
        \o u32_to_u8_be(ChunkCrc(Crc32New, t, d))

\* what a sink that never fails has received from this call once write is
\* past the chunk it is at
StreamSoFar ==
    Signature
        \o (IF chunk = "none" THEN <<>>
            ELSE ChunkBytes("IHDR", IhdrData(width, height)))
        \o (IF chunk \in {"IDAT", "IEND"}
            THEN ChunkBytes("IDAT", compress(raw_data).bytes)
            ELSE <<>>)
        \o (IF chunk = "IEND" THEN ChunkBytes("IEND", <<>>) ELSE <<>>)

\* C6: once a write to the sink has failed, write has returned that error,
\* no later write to the sink was attempted, and the sink holds a proper
\* prefix of what a never-failing sink would have received.
C6_ErrorPropagated ==
    io.err # "none"
        => /\ pc = "done"
           /\ result = [kind |-> "Err", err |-> io.err]
           /\ io.calls = io.failed_at
           /\ IsPrefix(sink, StreamSoFar)
           /\ Len(sink) < Len(StreamSoFar)

\* the sink failed in the middle of the data of IDAT
C6_Witness ==
    /\ io.err = "Other" /\ result.kind = "Err"
    /\ chunk = "IDAT" /\ packpos = 2 /\ Len(sink) > 45

\* 0xCBF43926
CheckValue == <<38, 57, 244, 203>>

\* C7: new, start, update("123456789"), finalize returns 0xCBF43926, and
\* crc(bytes) returns the CRC-32 of bytes whatever calls came before it.
C7_CheckValueAndOneShot ==
    /\ e_hist = << [op |-> "start", buf |-> <<>>],
                   [op |-> "update", buf |-> CheckInput],
                   [op |-> "finalize", buf |-> <<>>] >>
          => e_ret = CheckValue
    /\ (e_hist # <<>> /\ e_hist[Len(e_hist)].op = "crc")
          => e_ret = Crc32Finalize(Crc32Update(Crc32New, e_hist[Len(e_hist)].buf))

\* crc("123456789") called after an update and a finalize
C7_Witness ==
    /\ Len(e_hist) = 3
    /\ e_hist[1] = [op |-> "update", buf |-> <<255, 1>>]
    /\ e_hist[2].op = "finalize"
    /\ e_hist[3] = [op |-> "crc", buf |-> CheckInput]
    /\ e_ret = CheckValue

\* the length of the i-th part when n bytes are cut into parts of 65530
PartLen(n, i) == Min(CHUNK_SIZE, n - (i - 1) * CHUNK_SIZE)

\* C8: every stored block of compress(D) has LEN <= 65530 and every block but
\* the last LEN = 65530; the flag byte is 1 on the last block and 0 before;
\* LEN is little-endian and NLEN is its bytewise complement.
C8_BlockFraming ==
    z_pc = "returned"
        => LET z == VecBytes(z_c.raw_data, Data)
               bs == StoredBlocks(z, 3)
           IN  /\ bs[Len(bs)].to + 4 = Len(z)
               /\ \A i \in 1..Len(bs) :
                     /\ bs[i].len <= 65530
                     /\ bs[i].len = PartLen(z_data.len, i)
                     /\ i < Len(bs) => bs[i].len = 65530
                     /\ bs[i].flag = (IF i = Len(bs) THEN 1 ELSE 0)
                     /\ z[bs[i].from - 2] = 255 - z[bs[i].from - 4]
                     /\ z[bs[i].from - 1] = 255 - z[bs[i].from - 3]

\* a returned stream of three blocks
C8_Witness ==
    /\ z_pc = "returned"
    /\ Len(StoredBlocks(VecBytes(z_c.raw_data, Data), 3)) = 3

\* C9: the trailer of compress(D) is the big-endian one-shot Adler-32 of D:
\* the engine fed block by block is where a single update over the bytes
\* consumed so far leaves it, with a and b below 65521 after every byte.
C9_AdlerTrailer ==
    /\ z_pc = "loop"
          => z_c.crc = AdlerUpdate(Adler32New, SubSeq(Data, 1, z_c.pos_curr))
    /\ z_pc = "trailer"
          => /\ z_c.crc = AdlerUpdate(Adler32New, Data)
             /\ AdlerBelow(Adler32New, Data, 1, z_data.len).ok
    /\ z_pc = "returned"
          => LET z == VecBytes(z_c.raw_data, Data)
             IN  /\ Len(z) >= 4
                 /\ SubSeq(z, Len(z) - 3, Len(z)) = u32_to_u8_be(AdlerCrc(Data))

\* the trailer of a stream of three blocks
C9_Witness ==
    /\ z_pc = "returned"
    /\ z_data.len = 2 * CHUNK_SIZE + 1
    /\ z_c.crc.a > 1 /\ z_c.crc.b > 0

\* C10: during one call of write the CRC-32 table is built at most once.
C10_TableBuiltAtMostOnce == table_builds <= 1

ChunkIndex(t) ==
    CASE t = "none" -> 0 [] t = "IHDR" -> 1 [] t = "IDAT" -> 2 [] t = "IEND" -> 3

\* the chunks of this call whose CRC has been computed
CrcsComputed ==
    IF chunk = "none" THEN 0
    ELSE IF pc = "pack" \/ (result.kind = "Err" /\ packpos < 3)
         THEN ChunkIndex(chunk) - 1
         ELSE ChunkIndex(chunk)

\* C10, amended: the table is built once for every chunk whose CRC is
\* computed, three times in a call that returns Ok.
C10_TableBuiltPerChunk ==
    /\ table_builds = CrcsComputed
    /\ result.kind = "Ok" => table_builds = 3

\* a call that returned Ok
C10_Witness == result.kind = "Ok" /\ table_builds = 3


====
